---- MODULE Spec2Model ----
(***************************************************************************)
(* AITRIOS Data Receiver (src/main.py): the ingestion pipeline of the two   *)
(* PUT endpoints, their path-to-file mapping, the asynchronous file write   *)
(* and the process-wide counters.                                           *)
(*                                                                          *)
(* Strings are sequences of one-character strings, a path on disk is the    *)
(* sequence of its segments, an image body is a sequence of bytes and a     *)
(* JSON text is a sequence of tokens.                                       *)
(***************************************************************************)
EXTENDS Integers, Sequences, FiniteSets, TLC

(***************************************************************************)
(* Bounds of the model.                                                     *)
(***************************************************************************)
\* requests that arrive in one behaviour
MaxRequests == 2
\* longest filename the normalisation is applied to
MaxNameLen == 5

\* the coroutines that can be suspended at the same time
Slots == {1, 2}

(***************************************************************************)
(* Strings and paths.                                                       *)
(***************************************************************************)
Last(s) == s[Len(s)]

Front(s) == SubSeq(s, 1, Len(s) - 1)

\* str.endswith
endswith(s, suf) ==
    /\ Len(s) >= Len(suf)
    /\ SubSeq(s, Len(s) - Len(suf) + 1, Len(s)) = suf

RECURSIVE SplitFrom(_, _, _, _)
SplitFrom(s, i, cur, acc) ==
    IF i > Len(s) THEN Append(acc, cur)
    ELSE IF s[i] = "/" THEN SplitFrom(s, i + 1, <<>>, Append(acc, cur))
    ELSE SplitFrom(s, i + 1, Append(cur, s[i]), acc)

\* path.split('/'): never empty, "" gives [""]
split(path) == SplitFrom(path, 1, <<>>, <<>>)

DOT == <<".">>

DOTDOT == <<".", ".">>

TXT == <<".", "t", "x", "t">>

JSON == <<".", "j", "s", "o", "n">>

\* Config.IMAGE_DIR = Path("./image"): pathlib drops the leading "."
IMAGE_DIR == << <<"i", "m", "a", "g", "e">> >>

\* Config.META_DIR = Path("./meta")
META_DIR == << <<"m", "e", "t", "a">> >>

\* Config.LOG_DIR = Path("./logs")
LOG_DIR == << <<"l", "o", "g", "s">> >>

\* the working directory of the process, one level below the filesystem root
Cwd == << <<"s", "r", "v">> >>

\* pathlib's Path / segment, for a segment without '/': an empty or "."
\* segment is dropped, ".." is kept as it is
JoinPath(p, seg) == IF seg = <<>> \/ seg = DOT THEN p ELSE Append(p, seg)

RECURSIVE JoinAll(_, _)
JoinAll(p, segs) ==
    IF segs = <<>> THEN p ELSE JoinAll(JoinPath(p, segs[1]), Tail(segs))

\* filename = path_parts[-1]
filename(path) == Last(split(path))

\* subdirs = path_parts[:-1] if len(path_parts) > 1 else []
subdirs(path) ==
    IF Len(split(path)) > 1 THEN Front(split(path)) ELSE <<>>

\* the loop "for subdir in subdirs: file_dir = file_dir / subdir"
file_dir(root, path) == JoinAll(root, subdirs(path))

\* save_image_file: file_path = file_dir / filename
image_file_path(path) == JoinPath(file_dir(IMAGE_DIR, path), filename(path))

\* a variant of meta_filename that appends ".json" to every name that does
\* not end in ".txt", as a missing "not ... endswith('.json')" test would
meta_filename_always_appends(name) ==
    IF endswith(name, TXT)
    THEN SubSeq(name, 1, Len(name) - 4) \o JSON
    ELSE name \o JSON

\* a variant of meta_filename that does not strip ".txt"
meta_filename_keeps_txt(name) ==
    IF ~endswith(name, JSON) THEN name \o JSON ELSE name

\* save_meta_file: ".txt" is replaced by ".json", any other name that does
\* not end in ".json" gets ".json" appended
meta_filename(name) ==
    IF endswith(name, TXT)
    THEN SubSeq(name, 1, Len(name) - 4) \o JSON
    ELSE IF ~endswith(name, JSON) THEN name \o JSON
    ELSE name

\* save_meta_file: file_path = file_dir / filename, after the normalisation
meta_file_path(path) ==
    JoinPath(file_dir(META_DIR, path), meta_filename(filename(path)))

(***************************************************************************)
(* The filesystem: the directories and the files that exist, by absolute    *)
(* path (the sequence of segments below the filesystem root <<>>).          *)
(***************************************************************************)
Parent(p) == IF p = <<>> THEN <<>> ELSE Front(p)

RECURSIVE Walk(_, _)
Walk(cur, segs) ==
    IF segs = <<>> THEN cur
    ELSE IF segs[1] = DOTDOT THEN Walk(Parent(cur), Tail(segs))
    ELSE IF segs[1] = <<>> \/ segs[1] = DOT THEN Walk(cur, Tail(segs))
    ELSE Walk(Append(cur, segs[1]), Tail(segs))

\* the absolute path the operating system resolves a relative path to:
\* ".." steps to the parent directory (the root is its own parent), an
\* empty segment ("a//b") and "." stay in the directory
Resolve(p) == Walk(Cwd, p)

RECURSIVE MkdirWalk(_, _, _, _)
MkdirWalk(cur, segs, ds, fileset) ==
    IF segs = <<>> THEN [ok |-> TRUE, dirs |-> ds]
    ELSE IF segs[1] = DOTDOT
    THEN MkdirWalk(Parent(cur), Tail(segs), ds, fileset)
    ELSE IF Append(cur, segs[1]) \in fileset
    THEN [ok |-> FALSE, dirs |-> ds]
    ELSE MkdirWalk(Append(cur, segs[1]), Tail(segs),
                   ds \cup {Append(cur, segs[1])}, fileset)

\* a variant of mkdir without exist_ok: it raises when the directory exists
mkdir_exist_not_ok(p, ds, fileset) ==
    IF Walk(Cwd, p) \in ds
    THEN [ok |-> FALSE, dirs |-> ds]
    ELSE MkdirWalk(Cwd, p, ds, fileset)

\* file_dir.mkdir(parents=True, exist_ok=True): every missing directory of
\* the chain is created, an existing directory is accepted, and a component
\* that exists as a file makes it raise
mkdir(p, ds, fileset) == MkdirWalk(Cwd, p, ds, fileset)

\* a write of data at offset 0 of a file that holds old: the bytes of old
\* beyond the length of data stay
WriteAt0(old, data) == data \o SubSeq(old, Len(data) + 1, Len(old))

\* a variant of OpenTruncate that keeps the content of an existing file, as
\* an open without O_TRUNC would
OpenKeep(fs, target) ==
    IF target \in DOMAIN fs THEN fs ELSE (target :> <<>>) @@ fs

\* open(file_path, 'wb') and open(file_path, 'w'): the file is created, or
\* truncated to length 0 when it exists
OpenTruncate(fs, target) == (target :> <<>>) @@ fs

(***************************************************************************)
(* JSON. A text is a sequence of tokens: the braces of an object, one token *)
(* per "key": value pair, and a token that no JSON text holds. A value is a *)
(* string s and a list l of inference objects; a parsed object (a dict) is  *)
(* the sequence of its pairs in insertion order, each key once.             *)
(***************************************************************************)
Field(k, s, l) == [k |-> k, s |-> s, l |-> l]

LBRACE == Field("{", "", <<>>)

RBRACE == Field("}", "", <<>>)

GARBAGE == Field("#", "", <<>>)

IsPair(t) == t.k \notin {"{", "}", "#"}

\* an inference object with its field O, and one without
Inf(o) == [hasO |-> TRUE, O |-> o]

InfNoO == [hasO |-> FALSE, O |-> ""]

HasKey(d, k) == \E i \in 1..Len(d) : d[i].k = k

\* d[k] = value: an existing key keeps its place, a new one goes to the end
dict_set(d, f) ==
    IF HasKey(d, f.k)
    THEN [i \in 1..Len(d) |-> IF d[i].k = f.k THEN f ELSE d[i]]
    ELSE Append(d, f)

\* d.get(k, default)
dict_get(d, k, default) ==
    IF HasKey(d, k)
    THEN d[CHOOSE i \in 1..Len(d) : d[i].k = k]
    ELSE default

RECURSIVE DictOf(_, _)
DictOf(tokens, acc) ==
    IF tokens = <<>> THEN acc
    ELSE DictOf(Tail(tokens), dict_set(acc, tokens[1]))

\* json.loads(content): raises unless the text is one object; of a repeated
\* key the last value is kept
json_loads(body) ==
    IF /\ Len(body) >= 2
       /\ body[1] = LBRACE
       /\ body[Len(body)] = RBRACE
       /\ \A i \in 2..(Len(body) - 1) : IsPair(body[i])
    THEN [ok |-> TRUE, dict |-> DictOf(SubSeq(body, 2, Len(body) - 1), <<>>)]
    ELSE [ok |-> FALSE, dict |-> <<>>]

\* json.dumps(content, ensure_ascii=False, indent=None)
json_dumps(d) == <<LBRACE>> \o d \o <<RBRACE>>

\* DeserializeUtil.get_deserialize_data of module Desilialize: a pure
\* function of the encoded string that raises on a string it cannot decode
get_deserialize_data(encoded) ==
    IF encoded = "enc1" THEN [ok |-> TRUE, value |-> "val1"]
    ELSE IF encoded = "enc2" THEN [ok |-> TRUE, value |-> "val2"]
    ELSE [ok |-> FALSE, value |-> ""]

(***************************************************************************)
(* The requests a client can send.                                          *)
(***************************************************************************)
Request(path, body) == [path |-> path, body |-> body]

\* PUT /image/{path:path} with the rawPaths "", "f", "d/f", "../f", "d//f"
\* and "d", and three bodies to "d/f"
ImageRequests ==
    { Request(<<>>, <<1, 2>>),
      Request(<<"f">>, <<1, 2>>),
      Request(<<"d", "/", "f">>, <<1, 2>>),
      Request(<<"d", "/", "f">>, <<3>>),
      Request(<<"d", "/", "f">>, <<>>),
      Request(<<".", ".", "/", "f">>, <<1, 2>>),
      Request(<<"d", "/", "/", "f">>, <<1, 2>>),
      Request(<<"d">>, <<1, 2>>) }

DeviceID(s) == Field("DeviceID", s, <<>>)

Inferences(l) == Field("Inferences", "", l)

DeserializedData(s) == Field("DeserializedData", s, <<>>)

\* a body that is not JSON
BodyNotJson == <<LBRACE, GARBAGE>>

\* a record without Inferences
BodyPlain == <<LBRACE, DeviceID("dev1"), RBRACE>>

\* a record whose Inferences is empty
BodyNoInference == <<LBRACE, DeviceID("dev1"), Inferences(<<>>), RBRACE>>

\* a record whose first inference decodes
BodyDecodes ==
    <<LBRACE, DeviceID("dev1"), Inferences(<<Inf("enc1")>>), RBRACE>>

\* a record whose first inference does not decode
BodyUndecodable ==
    <<LBRACE, Inferences(<<Inf("bad")>>), DeviceID("dev2"), RBRACE>>

\* PUT /meta/{path:path} with the rawPaths "", "d/n.txt", "d/n.json", "d/n"
\* and "../n", and every body to "d/n.txt"
MetaRequests ==
    { Request(<<>>, BodyDecodes),
      Request(<<"d", "/", "n", ".", "t", "x", "t">>, BodyDecodes),
      Request(<<"d", "/", "n", ".", "t", "x", "t">>, BodyNotJson),
      Request(<<"d", "/", "n", ".", "t", "x", "t">>, BodyPlain),
      Request(<<"d", "/", "n", ".", "t", "x", "t">>, BodyNoInference),
      Request(<<"d", "/", "n", ".", "t", "x", "t">>, BodyUndecodable),
      Request(<<"d", "/", "n", ".", "j", "s", "o", "n">>, BodyDecodes),
      Request(<<"d", "/", "n">>, BodyPlain),
      Request(<<".", ".", "/", "n">>, BodyDecodes) }

(***************************************************************************)
(* State.                                                                   *)
(***************************************************************************)
VARIABLES
    pc,                \* where the coroutine of each slot is suspended
    req,               \* the request a slot serves: kind, path, body
    ctx,               \* save_*_file's locals, and history: found, rival
    resp,              \* the dictionary an endpoint returned last, kept
                       \* until the next request arrives
    processing_stats,  \* the process-wide counters
    files,             \* absolute path -> content, of the files that exist
    dirs,              \* the absolute paths of the directories that exist
    nArrived,          \* history: requests that have arrived
    tally,             \* history: responses by kind and outcome
    written,           \* history: the files each kind of request opened
    last,              \* history: the request that resp answers
    norm,              \* a filename and its normalisations, for NormSpec
    cluster            \* the worker processes' counters, for WorkerSpec

vars ==
    <<pc, req, ctx, resp, processing_stats, files, dirs, nArrived, tally,
      written, last, norm, cluster>>

None == [some |-> FALSE, content |-> <<>>]

Some(content) == [some |-> TRUE, content |-> content]

NoReq == [kind |-> "none", path |-> <<>>, body |-> <<>>]

\* found: what the file held when this request opened it; rival: what a
\* request to the same file that returned 200 meanwhile had written
NoCtx ==
    [file_path |-> <<>>, content |-> <<>>, pending |-> FALSE,
     found |-> None, rival |-> None]

\* transport: the status of the HTTP response that carries the dictionary
NoResp == [status |-> 0, file_path |-> <<>>, error |-> "", transport |-> 0]

\* the decoder has not been invoked
NoCall == [called |-> FALSE, encoded |-> ""]

NoLast ==
    [kind |-> "none", path |-> <<>>, body |-> <<>>, content |-> <<>>,
     found |-> None, rival |-> None, errInc |-> 0, decoder |-> NoCall]

NoNorm == [name |-> <<>>, once |-> <<>>, twice |-> <<>>, step |-> "idle"]

\* Config.WORKERS
WORKERS == 4

\* status.HTTP_200_OK
HTTP_200_OK == 200

\* status.HTTP_500_INTERNAL_SERVER_ERROR
HTTP_500_INTERNAL_SERVER_ERROR == 500

\* the module-level processing_stats of a process that has just started;
\* start_time is time.time() at the import, the origin of the model's clock
InitStats ==
    [images_received |-> 0, meta_received |-> 0, errors |-> 0,
     start_time |-> 0]

\* the module-level processing_stats, and the directories that
\* ensure_directories has created when the first request arrives
InitMain ==
    /\ pc = [r \in Slots |-> "idle"]
    /\ req = [r \in Slots |-> NoReq]
    /\ ctx = [r \in Slots |-> NoCtx]
    /\ resp = NoResp
    /\ processing_stats = InitStats
    /\ files = <<>>
    /\ dirs = { <<>>, Cwd, Cwd \o IMAGE_DIR, Cwd \o META_DIR, Cwd \o LOG_DIR }
    /\ nArrived = 0
    /\ tally = [imgOk |-> 0, imgFail |-> 0, metaOk |-> 0, metaFail |-> 0]
    /\ written = {}
    /\ last = NoLast

\* the processing_stats of each worker process that uvicorn starts; history:
\* the number n of PUT requests the workers have completed and the
\* increments they have made in all (served); and the last answer of GET
\* /status: the worker that gave it, its counters, and served at that time
InitCluster ==
    [stats |-> [w \in 1..WORKERS |-> InitStats],
     n |-> 0,
     served |-> InitStats,
     status |-> [worker |-> 0, stats |-> InitStats, served |-> InitStats]]

Init == InitMain /\ norm = NoNorm /\ cluster = InitCluster

\* the file a request is written to
Dest(rq) ==
    Resolve(IF rq.kind = "image"
            THEN image_file_path(rq.path)
            ELSE meta_file_path(rq.path))

(***************************************************************************)
(* The ways a request ends.                                                 *)
(***************************************************************************)
Bump(kind, ok) ==
    IF kind = "image"
    THEN (IF ok
          THEN [tally EXCEPT !.imgOk = @ + 1]
          ELSE [tally EXCEPT !.imgFail = @ + 1])
    ELSE (IF ok
          THEN [tally EXCEPT !.metaOk = @ + 1]
          ELSE [tally EXCEPT !.metaFail = @ + 1])

\* a variant of Enrich that stores DeserializedData in every record, empty
\* when there is no inference
Enrich_always_stores(contentj) ==
    LET inferences == dict_get(contentj, "Inferences", Inferences(<<>>)).l
        inferenceresult ==
            IF inferences[1].hasO THEN inferences[1].O ELSE ""
        decoded == get_deserialize_data(inferenceresult)
    IN IF inferences = <<>>
       THEN [ok |-> TRUE, call |-> NoCall,
             contentj |-> dict_set(contentj, DeserializedData(""))]
       ELSE [ok |-> decoded.ok,
             call |-> [called |-> TRUE, encoded |-> inferenceresult],
             contentj |-> dict_set(contentj, DeserializedData(decoded.value))]

\* a variant of Enrich that decodes the last inference
Enrich_decodes_last(contentj) ==
    LET inferences == dict_get(contentj, "Inferences", Inferences(<<>>)).l
        n == Len(inferences)
        inferenceresult ==
            IF inferences[n].hasO THEN inferences[n].O ELSE ""
        decoded == get_deserialize_data(inferenceresult)
    IN IF inferences = <<>>
       THEN [ok |-> TRUE, call |-> NoCall, contentj |-> contentj]
       ELSE IF decoded.ok
       THEN [ok |-> TRUE,
             call |-> [called |-> TRUE, encoded |-> inferenceresult],
             contentj |-> dict_set(contentj, DeserializedData(decoded.value))]
       ELSE [ok |-> FALSE,
             call |-> [called |-> TRUE, encoded |-> inferenceresult],
             contentj |-> contentj]

\* "if inferences:" of update_inference_result: the first inference's O
\* ("" when absent) is decoded and stored as DeserializedData; call is the
\* invocation of the decoder that was made
Enrich(contentj) ==
    LET inferences == dict_get(contentj, "Inferences", Inferences(<<>>)).l
        inferenceresult ==
            IF inferences[1].hasO THEN inferences[1].O ELSE ""
        decoded == get_deserialize_data(inferenceresult)
    IN IF inferences = <<>>
       THEN [ok |-> TRUE, call |-> NoCall, contentj |-> contentj]
       ELSE IF decoded.ok
       THEN [ok |-> TRUE,
             call |-> [called |-> TRUE, encoded |-> inferenceresult],
             contentj |-> dict_set(contentj, DeserializedData(decoded.value))]
       ELSE [ok |-> FALSE,
             call |-> [called |-> TRUE, encoded |-> inferenceresult],
             contentj |-> contentj]

\* the invocation of the decoder that the handler of slot r has made when
\* it ends with the given error
DecoderCall(r, error) ==
    IF /\ req[r].kind = "meta"
       /\ error # "body"
       /\ json_loads(req[r].body).ok
    THEN Enrich(json_loads(req[r].body).dict).call
    ELSE NoCall

\* the endpoint returns its dictionary, which FastAPI sends with its default
\* status 200, and the coroutine ends; inc is the number of times errors
\* was incremented for the request
Return(r, status, file_path, error, inc) ==
    /\ resp' = [status |-> status, file_path |-> file_path, error |-> error,
                transport |-> HTTP_200_OK]
    /\ last' =
          [kind |-> req[r].kind, path |-> req[r].path, body |-> req[r].body,
           content |-> ctx[r].content, found |-> ctx[r].found,
           rival |-> ctx[r].rival, errInc |-> inc,
           decoder |-> DecoderCall(r, error)]
    /\ tally' = Bump(req[r].kind, status = HTTP_200_OK)
    /\ pc' = [pc EXCEPT ![r] = "idle"]
    /\ req' = [req EXCEPT ![r] = NoReq]
    /\ ctx' =
          [q \in Slots |->
              IF q = r THEN NoCtx
              ELSE IF /\ status = HTTP_200_OK
                      /\ pc[q] # "idle"
                      /\ Dest(req[q]) = Dest(req[r])
              THEN [ctx[q] EXCEPT !.rival = Some(ctx[r].content)]
              ELSE ctx[q]]

\* processing_stats[...] += 1: between the read and the write of the
\* counter there is no await, so no other coroutine runs in between
Counted(stats, event) ==
    IF event = "image" THEN [stats EXCEPT !.images_received = @ + 1]
    ELSE IF event = "meta" THEN [stats EXCEPT !.meta_received = @ + 1]
    ELSE [stats EXCEPT !.errors = @ + 1]

\* the "except Exception" block of update_image and update_inference_result:
\* the failure is logged and a dictionary with status 500 is returned
HandlerExcept(r, step) ==
    /\ Return(r, HTTP_500_INTERNAL_SERVER_ERROR, <<>>, step, 0)
    /\ UNCHANGED processing_stats

\* a variant of SaveExcept that does not raise again: the endpoint goes on
\* and returns its dictionary of success
SaveExcept_swallows(r, step) ==
    /\ processing_stats' = Counted(processing_stats, "error")
    /\ Return(r, HTTP_200_OK, ctx[r].file_path, "", 1)

\* a variant of SaveExcept in which the endpoint's except block increments
\* errors as well
SaveExcept_counts_twice(r, step) ==
    /\ processing_stats' =
          Counted(Counted(processing_stats, "error"), "error")
    /\ Return(r, HTTP_500_INTERNAL_SERVER_ERROR, <<>>, step, 2)

\* a variant of SaveExcept that ends the process: no coroutine runs again
SaveExcept_terminates(r, step) ==
    /\ processing_stats' = Counted(processing_stats, "error")
    /\ pc' = [q \in Slots |-> "terminated"]
    /\ tally' = Bump(req[r].kind, FALSE)
    /\ resp' = NoResp
    /\ UNCHANGED <<req, ctx, last>>

\* the "except Exception" block of save_image_file and save_meta_file:
\* errors is incremented and the exception raised again, to the endpoint's
\* except block
SaveExcept(r, step) ==
    /\ processing_stats' = Counted(processing_stats, "error")
    /\ Return(r, HTTP_500_INTERNAL_SERVER_ERROR, <<>>, step, 1)

\* a variant of SaveReturn that read the counter before its awaits: when a
\* request to the same file has returned meanwhile, the value written back
\* is the one the counter already has
SaveReturn_stale_read(r) ==
    /\ processing_stats' =
          IF ctx[r].rival.some
          THEN processing_stats
          ELSE Counted(processing_stats, req[r].kind)
    /\ Return(r, HTTP_200_OK, ctx[r].file_path, "", 0)

\* the tail of save_*_file and of its endpoint: the counter of the kind is
\* incremented and a dictionary with status 200 and str(file_path) returned
SaveReturn(r) ==
    /\ processing_stats' = Counted(processing_stats, req[r].kind)
    /\ Return(r, HTTP_200_OK, ctx[r].file_path, "", 0)

\* the coroutine goes on to its next await
Await(r, point, locals) ==
    /\ pc' = [pc EXCEPT ![r] = point]
    /\ ctx' = [ctx EXCEPT ![r] = locals]
    /\ UNCHANGED <<req, resp, processing_stats, tally, last>>

(***************************************************************************)
(* Arrival of a request, and the read of its body.                          *)
(***************************************************************************)
\* the request goes to the first free slot; the last response has gone to
\* its client
Arrive(r, kind, rq) ==
    /\ pc[r] = "idle"
    /\ \A q \in Slots : q < r => pc[q] # "idle"
    /\ nArrived < MaxRequests
    /\ nArrived' = nArrived + 1
    /\ pc' = [pc EXCEPT ![r] = "body"]
    /\ req' = [req EXCEPT ![r] =
          [kind |-> kind, path |-> rq.path, body |-> rq.body]]
    /\ resp' = NoResp
    /\ last' = NoLast
    /\ UNCHANGED <<ctx, processing_stats, files, dirs, tally, written, norm,
                   cluster>>

\* PUT /image/{path:path}
PutImage(r) == \E rq \in ImageRequests : Arrive(r, "image", rq)

\* PUT /meta/{path:path}
PutMeta(r) == \E rq \in MetaRequests : Arrive(r, "meta", rq)

\* "content = await request.body()" raises (the client went away): the
\* endpoint's except block answers
BodyFails(r) ==
    /\ pc[r] = "body"
    /\ HandlerExcept(r, "body")
    /\ UNCHANGED <<files, dirs, nArrived, written, norm, cluster>>

(***************************************************************************)
(* save_image_file and save_meta_file up to the open: the directory chain.  *)
(***************************************************************************)
\* the code from the resumption after a body read to "aiofiles.open": the
\* split, file_dir.mkdir and file_path. permitted is the operating system's
\* answer to the creation of a directory (permissions, space): its refusal
\* is the error "mkdir_os", a component that exists as a file the error
\* "mkdir". When every directory of the chain exists nothing is created
\* and mkdir accepts the chain (exist_ok)
SaveBegin(r, root, file_path, content) ==
    LET made == mkdir(file_dir(root, req[r].path), dirs, DOMAIN files)
    IN \E permitted \in BOOLEAN :
          LET refused == ~permitted /\ made.dirs # dirs
          IN IF ~refused /\ made.ok
             THEN /\ dirs' = made.dirs
                  /\ Await(r, "open",
                           [ctx[r] EXCEPT !.file_path = file_path,
                                          !.content = content])
             ELSE /\ dirs' = IF refused THEN dirs ELSE made.dirs
                  /\ SaveExcept(r, IF refused THEN "mkdir_os" ELSE "mkdir")

\* a variant of update_image that stores every file in the image root
update_image_no_subdirs(r) ==
    /\ pc[r] = "body"
    /\ req[r].kind = "image"
    /\ SaveBegin(r, IMAGE_DIR, JoinPath(IMAGE_DIR, filename(req[r].path)),
                 req[r].body)
    /\ UNCHANGED <<files, nArrived, written, norm, cluster>>

\* update_image from "content = await request.body()" to the open in
\* save_image_file
update_image(r) ==
    /\ pc[r] = "body"
    /\ req[r].kind = "image"
    /\ SaveBegin(r, IMAGE_DIR, image_file_path(req[r].path), req[r].body)
    /\ UNCHANGED <<files, nArrived, written, norm, cluster>>

\* a variant of update_inference_result that creates the directory chain
\* before it parses the body
update_inference_result_mkdir_first(r) ==
    /\ pc[r] = "body"
    /\ req[r].kind = "meta"
    /\ LET parsed == json_loads(req[r].body)
           enriched == Enrich(parsed.dict)
           made == mkdir(file_dir(META_DIR, req[r].path), dirs, DOMAIN files)
       IN IF ~parsed.ok \/ ~enriched.ok
          THEN /\ HandlerExcept(r, IF parsed.ok THEN "decode" ELSE "parse")
               /\ dirs' = made.dirs
          ELSE SaveBegin(r, META_DIR, meta_file_path(req[r].path),
                         json_dumps(enriched.contentj))
    /\ UNCHANGED <<files, nArrived, written, norm, cluster>>

\* update_inference_result from "content = await request.body()" to the
\* open in save_meta_file: json.loads, the decoding, then the save
update_inference_result(r) ==
    /\ pc[r] = "body"
    /\ req[r].kind = "meta"
    /\ LET parsed == json_loads(req[r].body)
           enriched == Enrich(parsed.dict)
       IN IF ~parsed.ok
          THEN HandlerExcept(r, "parse") /\ UNCHANGED dirs
          ELSE IF ~enriched.ok
          THEN HandlerExcept(r, "decode") /\ UNCHANGED dirs
          ELSE SaveBegin(r, META_DIR, meta_file_path(req[r].path),
                         json_dumps(enriched.contentj))
    /\ UNCHANGED <<files, nArrived, written, norm, cluster>>

(***************************************************************************)
(* The asynchronous write: "async with aiofiles.open(...) as f:             *)
(* await f.write(...)". The open, the write and the close each run in the   *)
(* executor and are awaited, so other coroutines run between them.          *)
(***************************************************************************)
\* aiofiles.open(file_path, 'wb' | 'w'): raises when the path names a
\* directory or the operating system refuses; else creates or truncates
aio_open(r) ==
    /\ pc[r] = "open"
    /\ LET target == Resolve(ctx[r].file_path)
       IN \E permitted \in BOOLEAN :
             IF permitted /\ target \notin dirs /\ Parent(target) \in dirs
             THEN /\ files' = OpenTruncate(files, target)
                  /\ written' =
                        written \cup {[kind |-> req[r].kind, path |-> target]}
                  /\ Await(r, "write",
                           [ctx[r] EXCEPT !.found =
                               IF target \in DOMAIN files
                               THEN Some(files[target]) ELSE None])
             ELSE /\ SaveExcept(r, "open")
                  /\ UNCHANGED <<files, written>>
    /\ UNCHANGED <<dirs, nArrived, norm, cluster>>

\* await f.write(content): the content stays in the file object's buffer
\* (a content smaller than the buffer), or goes to the file at once, or the
\* write raises (no space) and the exit of the "async with" closes the file
aio_write(r) ==
    /\ pc[r] = "write"
    /\ LET target == Resolve(ctx[r].file_path)
       IN \/ /\ Await(r, "close", [ctx[r] EXCEPT !.pending = TRUE])
             /\ UNCHANGED files
          \/ /\ files' = [files EXCEPT ![target] = WriteAt0(@, ctx[r].content)]
             /\ Await(r, "close", ctx[r])
          \/ /\ SaveExcept(r, "write")
             /\ UNCHANGED files
    /\ UNCHANGED <<dirs, nArrived, written, norm, cluster>>

\* the exit of the "async with": close flushes the buffer to the file, at
\* the file object's own offset 0, and the flush can raise. After the close
\* the counter is incremented and the endpoint returns
aio_close(r) ==
    /\ pc[r] = "close"
    /\ LET target == Resolve(ctx[r].file_path)
       IN \/ /\ files' =
                   IF ctx[r].pending
                   THEN [files EXCEPT ![target] = WriteAt0(@, ctx[r].content)]
                   ELSE files
             /\ SaveReturn(r)
          \/ /\ ctx[r].pending
             /\ SaveExcept(r, "close")
             /\ UNCHANGED files
    /\ UNCHANGED <<dirs, nArrived, written, norm, cluster>>

\* a step of the coroutine of slot r
Step(r) ==
    \/ BodyFails(r)
    \/ update_image(r)
    \/ update_inference_result(r)
    \/ aio_open(r)
    \/ aio_write(r)
    \/ aio_close(r)

\* one event loop: requests arrive while others are suspended
Next ==
    \E r \in Slots :
        \/ PutImage(r)
        \/ PutMeta(r)
        \/ Step(r)

Spec == Init /\ [][Next]_vars

\* no request is in flight
Quiet == \A r \in Slots : pc[r] = "idle"

\* a record whose only inference has no field O
BodyNoO == <<LBRACE, DeviceID("dev1"), Inferences(<<InfNoO>>), RBRACE>>

\* a record with two inferences, of which the first decodes
BodyTwo ==
    <<LBRACE, DeviceID("dev1"), Inferences(<<Inf("enc1"), Inf("bad")>>),
      RBRACE>>

\* a record that holds DeserializedData before its inference is decoded
BodyHasData ==
    <<LBRACE, DeserializedData("old"), Inferences(<<Inf("enc2")>>),
      DeviceID("dev1"), RBRACE>>

\* a record that holds DeserializedData and no inference
BodyOldData == <<LBRACE, DeserializedData("old"), DeviceID("dev1"), RBRACE>>

\* a text in which a key is repeated
BodyRepeated == <<LBRACE, DeviceID("dev1"), DeviceID("dev2"), RBRACE>>

\* PUT /meta/d/n.txt with the other shapes of a record
MoreMetaRequests ==
    { Request(<<"d", "/", "n", ".", "t", "x", "t">>, body) :
        body \in {BodyNoO, BodyTwo, BodyHasData, BodyOldData, BodyRepeated} }

PutMetaMore(r) == \E rq \in MoreMetaRequests : Arrive(r, "meta", rq)

\* requests that arrive one after the other: one arrives only when none is
\* in flight
SeqNext ==
    \E r \in Slots :
        \/ Quiet /\ PutImage(r)
        \/ Quiet /\ PutMeta(r)
        \/ Quiet /\ PutMetaMore(r)
        \/ Step(r)

SeqSpec == Init /\ [][SeqNext]_vars

(***************************************************************************)
(* The filename normalisation of save_meta_file on its own, applied to      *)
(* every name of up to MaxNameLen characters, and to its own result.        *)
(***************************************************************************)
NameChars == {".", "t", "x", "j", "s", "o", "n"}

Names == UNION {[1..k -> NameChars] : k \in 0..MaxNameLen}

InitNorm ==
    /\ InitMain
    /\ cluster = InitCluster
    /\ \E name \in Names :
          norm = [name |-> name, once |-> <<>>, twice |-> <<>>,
                  step |-> "name"]

NormalizeOnce ==
    /\ norm.step = "name"
    /\ norm' = [norm EXCEPT !.once = meta_filename(norm.name),
                            !.step = "once"]
    /\ UNCHANGED <<pc, req, ctx, resp, processing_stats, files, dirs,
                   nArrived, tally, written, last, cluster>>

NormalizeTwice ==
    /\ norm.step = "once"
    /\ norm' = [norm EXCEPT !.twice = meta_filename(norm.once),
                            !.step = "twice"]
    /\ UNCHANGED <<pc, req, ctx, resp, processing_stats, files, dirs,
                   nArrived, tally, written, last, cluster>>

NormNext == NormalizeOnce \/ NormalizeTwice

NormSpec == InitNorm /\ [][NormNext]_vars


(***************************************************************************)
(* The event loop with its scheduling: a coroutine that can take a step     *)
(* (it was just started, or the executor has finished its open, write or    *)
(* close) is resumed. Requests that succeed and requests that fail arrive.  *)
(***************************************************************************)
\* an image, which fails when its body read, mkdir, open, write or close
\* fails, and a record that fails at decoding
LiveImageRequests == { Request(<<"d", "/", "f">>, <<1, 2>>) }

LiveMetaRequests ==
    { Request(<<"d", "/", "n", ".", "t", "x", "t">>, BodyUndecodable) }

PutLive(r) ==
    \/ \E rq \in LiveImageRequests : Arrive(r, "image", rq)
    \/ \E rq \in LiveMetaRequests : Arrive(r, "meta", rq)

LiveNext ==
    \E r \in Slots :
        \/ PutLive(r)
        \/ Step(r)

FairSpec ==
    /\ Init
    /\ [][LiveNext]_vars
    /\ \A r \in Slots : WF_vars(Step(r))

(***************************************************************************)
(* The service as uvicorn.run starts it: WORKERS processes, each with the   *)
(* module's processing_stats of its own, behind one port. A PUT request is  *)
(* handled by one worker as in Spec; here only what it does to that         *)
(* worker's counters is kept.                                               *)
(***************************************************************************)
MaxServed == 3

\* the ways a PUT request ends: a save that succeeded, by kind; a failure
\* inside a save; a failure before the save, which no counter records
Outcomes == {"image", "meta", "error", "uncounted"}

AfterOutcome(stats, outcome) ==
    IF outcome = "uncounted" THEN stats ELSE Counted(stats, outcome)

\* worker w completes a PUT request
WorkerServes(w, outcome) ==
    /\ cluster.n < MaxServed
    /\ cluster' =
          [cluster EXCEPT !.n = @ + 1,
                          !.stats[w] = AfterOutcome(@, outcome),
                          !.served = AfterOutcome(@, outcome)]
    /\ UNCHANGED <<pc, req, ctx, resp, processing_stats, files, dirs,
                   nArrived, tally, written, last, norm>>

\* GET /status answered by worker w: the counters of its own module
get_status(w) ==
    /\ cluster' =
          [cluster EXCEPT !.status =
              [worker |-> w, stats |-> cluster.stats[w],
               served |-> cluster.served]]
    /\ UNCHANGED <<pc, req, ctx, resp, processing_stats, files, dirs,
                   nArrived, tally, written, last, norm>>

WorkerNext ==
    \E w \in 1..WORKERS :
        \/ \E outcome \in Outcomes : WorkerServes(w, outcome)
        \/ get_status(w)

WorkerSpec == Init /\ [][WorkerNext]_vars
(***************************************************************************)
(* Properties.                                                              *)
(***************************************************************************)
\* path p is path q or an ancestor of it
IsPrefix(p, q) == Len(p) <= Len(q) /\ SubSeq(q, 1, Len(p)) = p

\* the images root and the metadata root, as absolute paths
RootOf(kind) == Cwd \o (IF kind = "image" THEN IMAGE_DIR ELSE META_DIR)

\* C1: a metadata request whose inference payload fails to decode
\* increments errors exactly once.
C1_DecodeFailureCountsOneError ==
    (last.kind = "meta" /\ resp.error = "decode") => last.errInc = 1

\* C2: a metadata request whose body is not valid JSON is answered as a
\* failure and increments errors exactly once.
C2_ParseFailureCountsOneError ==
    (last.kind = "meta" /\ resp.error = "parse") =>
        /\ resp.status = HTTP_500_INTERNAL_SERVER_ERROR
        /\ last.errInc = 1

\* a metadata request has just failed at the JSON parse or at the decoding
RejectedNow ==
    /\ tally'.metaFail = tally.metaFail + 1
    /\ resp'.error \in {"parse", "decode"}

\* C3: the step in which a metadata request fails at JSON parsing or at
\* decoding is the request's only step after its arrival, and it leaves
\* every file and every directory as it was.
C3_RejectedMetadataWritesNothing ==
    [][RejectedNow =>
          /\ files' = files
          /\ dirs' = dirs
          /\ written' = written
          /\ \E r \in Slots : pc[r] = "body" /\ pc'[r] = "idle"]_vars

\* a decoding failure has been answered while a file exists and the
\* directory of the request does not
C3_Witness ==
    /\ last.kind = "meta"
    /\ resp.error = "decode"
    /\ DOMAIN files # {}
    /\ Resolve(file_dir(META_DIR, last.path)) \notin dirs

\* C4: every file a request has opened for writing lies under the root of
\* its kind.
C4_WrittenFilesUnderRoot ==
    \A w \in written : IsPrefix(RootOf(w.kind), w.path)

\* no metadata request has arrived
NoMetaRan ==
    /\ tally.metaOk = 0
    /\ tally.metaFail = 0
    /\ \A r \in Slots : req[r].kind # "meta"

\* C5: with image requests only, images_received is the number of image
\* requests answered with success and errors the number answered with
\* failure.
C5_ImageCountersMatchOutcomes ==
    NoMetaRan =>
        /\ processing_stats.images_received = tally.imgOk
        /\ processing_stats.errors = tally.imgFail

\* C6: when two requests to the same file have overlapped and both were
\* answered with success, the file holds the whole content of one of them.
C6_ConcurrentWritersLeaveOneBody ==
    (Quiet /\ resp.status = HTTP_200_OK /\ last.rival.some) =>
        files[Resolve(resp.file_path)] \in {last.content, last.rival.content}

\* C7: an image written with success to a path where a file existed leaves
\* exactly the new body in the file.
C7_SecondWriteReplacesFirst ==
    (resp.status = HTTP_200_OK /\ last.kind = "image" /\ last.found.some) =>
        files[Resolve(resp.file_path)] = last.body

\* body <<3>> has been written over a file that held <<1, 2>>
C7_Witness ==
    /\ resp.status = HTTP_200_OK
    /\ last.kind = "image"
    /\ last.found = Some(<<1, 2>>)
    /\ last.body = <<3>>

\* C8: a successful image request stores its body in root/seg1/.../segk,
\* names the file by the last segment, and returns that path: the same
\* file in every case, and the same string when no segment is empty or ".";
\* a single segment gives root/seg1.
C8_ImageStoredAtMirroredPath ==
    (resp.status = HTTP_200_OK /\ last.kind = "image") =>
        LET segs == split(last.path)
            mirrored == IMAGE_DIR \o segs
        IN /\ Resolve(mirrored) \in DOMAIN files
           /\ files[Resolve(mirrored)] = last.body
           /\ Last(resp.file_path) = Last(segs)
           /\ Resolve(resp.file_path) = Resolve(mirrored)
           /\ (\A i \in 1..Len(segs) : segs[i] \notin {<<>>, DOT})
                 => resp.file_path = mirrored
           /\ Len(segs) = 1 => resp.file_path = Append(IMAGE_DIR, segs[1])

\* an image with a path of two segments or more has been stored
C8_Witness ==
    /\ resp.status = HTTP_200_OK
    /\ last.kind = "image"
    /\ Len(split(last.path)) >= 2
    /\ last.body # <<>>

\* C9: the stored name of a metadata file is the last segment with ".txt"
\* replaced by ".json", unchanged when it ends in ".json", and with ".json"
\* appended otherwise; the directory chain is that of the path; every
\* metadata file written has a name ending in ".json".
C9_MetaFilenameIsJson ==
    /\ \A r \in Slots :
          (req[r].kind = "meta" /\ pc[r] \in {"open", "write", "close"}) =>
              LET name == Last(split(req[r].path))
                  stored == Last(ctx[r].file_path)
              IN /\ endswith(name, TXT) =>
                       stored = SubSeq(name, 1, Len(name) - 4) \o JSON
                 /\ endswith(name, JSON) => stored = name
                 /\ (~endswith(name, TXT) /\ ~endswith(name, JSON)) =>
                       stored = name \o JSON
                 /\ Front(ctx[r].file_path) =
                       JoinAll(META_DIR, subdirs(req[r].path))
    /\ \A w \in written :
          w.kind = "meta" => endswith(Last(w.path), JSON)

\* a metadata request with a ".txt" name has written its file
C9_Witness ==
    \E r \in Slots :
        /\ req[r].kind = "meta"
        /\ pc[r] = "close"
        /\ endswith(filename(req[r].path), TXT)
        /\ [kind |-> "meta", path |-> Resolve(ctx[r].file_path)] \in written

\* C10: normalising a normalised name changes nothing; a name ending in
\* ".json" is a fixed point; a name ending in ".txt" maps to the name with
\* ".json" in place of ".txt".
C10_NormalizationIdempotent ==
    /\ norm.step = "twice" => norm.twice = norm.once
    /\ (norm.step \in {"once", "twice"} /\ endswith(norm.name, JSON)) =>
          norm.once = norm.name
    /\ (norm.step \in {"once", "twice"} /\ endswith(norm.name, TXT)) =>
          norm.once = SubSeq(norm.name, 1, Len(norm.name) - 4) \o JSON

\* a name ending in ".txt" has been normalised twice
C10_Witness ==
    /\ norm.step = "twice"
    /\ endswith(norm.name, TXT)
    /\ Len(norm.name) > 4
    /\ norm.twice = norm.once


\* the record that json.loads makes of the body that resp answers
ParsedLast == json_loads(last.body).dict

\* the Inferences of that record, empty when it has none
InferencesLast == dict_get(ParsedLast, "Inferences", Inferences(<<>>)).l

\* resp answers a metadata request whose body was read and parsed
ParsedMetaAnswered ==
    /\ last.kind = "meta"
    /\ resp.error \notin {"body", "parse"}
    /\ json_loads(last.body).ok

\* C11: a metadata request whose record has an empty or absent Inferences
\* ends without an invocation of the decoder and without a decoding error,
\* and when it succeeds its file holds the serialisation of the parsed
\* record: the same pairs in the same order, DeserializedData only when the
\* input held it.
C11_NoInferencePassesThrough ==
    (ParsedMetaAnswered /\ InferencesLast = <<>>) =>
        /\ ~last.decoder.called
        /\ resp.error # "decode"
        /\ resp.status = HTTP_200_OK =>
              /\ files[Resolve(resp.file_path)] = json_dumps(ParsedLast)
              /\ json_loads(files[Resolve(resp.file_path)]).dict = ParsedLast
              /\ HasKey(json_loads(files[Resolve(resp.file_path)]).dict,
                        "DeserializedData")
                    <=> HasKey(ParsedLast, "DeserializedData")

\* a record with an empty Inferences has been stored
C11_Witness ==
    /\ resp.status = HTTP_200_OK
    /\ last.kind = "meta"
    /\ last.body = BodyNoInference
    /\ files[Resolve(resp.file_path)] = BodyNoInference
    /\ ~last.decoder.called

\* C12: a metadata request whose record has a non-empty Inferences invokes
\* the decoder once, with the O of element 0 of Inferences or with "" when
\* that element has no O, and fails with a decoding error exactly when the
\* decoder raises; when the request succeeds its file holds the record with
\* DeserializedData set to the decoder's value: DeserializedData occurs
\* once, every other field of the input is there unchanged, and no other
\* field is added.
C12_FirstInferenceDecodedAndStored ==
    (ParsedMetaAnswered /\ InferencesLast # <<>>) =>
        LET encoded ==
                IF InferencesLast[1].hasO THEN InferencesLast[1].O ELSE ""
            decoded == get_deserialize_data(encoded)
            stored == json_loads(files[Resolve(resp.file_path)]).dict
        IN /\ last.decoder = [called |-> TRUE, encoded |-> encoded]
           /\ resp.error = "decode" <=> ~decoded.ok
           /\ resp.status = HTTP_200_OK =>
                 /\ json_loads(files[Resolve(resp.file_path)]).ok
                 /\ Cardinality({i \in 1..Len(stored) :
                                   stored[i].k = "DeserializedData"}) = 1
                 /\ dict_get(stored, "DeserializedData", GARBAGE) =
                       DeserializedData(decoded.value)
                 /\ \A i \in 1..Len(ParsedLast) :
                       ParsedLast[i].k # "DeserializedData" =>
                           dict_get(stored, ParsedLast[i].k, GARBAGE) =
                               ParsedLast[i]
                 /\ \A i \in 1..Len(stored) :
                       \/ stored[i].k = "DeserializedData"
                       \/ HasKey(ParsedLast, stored[i].k)

\* a record that held DeserializedData "old" has been stored with the
\* value decoded from its inference
C12_Witness ==
    /\ resp.status = HTTP_200_OK
    /\ last.kind = "meta"
    /\ last.body = BodyHasData
    /\ last.decoder = [called |-> TRUE, encoded |-> "enc2"]
    /\ files[Resolve(resp.file_path)] =
          <<LBRACE, DeserializedData("val2"), Inferences(<<Inf("enc2")>>),
            DeviceID("dev1"), RBRACE>>

\* the coroutine of slot r ends in this step
Ends(r) == pc[r] # "idle" /\ pc'[r] = "idle"

\* C13: the step that ends a request leaves a dictionary that the HTTP
\* response carries with status 200. Either the dictionary has status 200,
\* no error and the path of the request's file, the request has passed its
\* write, the file exists and the counter of the request's kind, and no
\* other counter, is one higher; or it has status 500, an error string and
\* no file_path, the request has not completed its write, and neither
\* images_received nor meta_received has changed.
C13_EveryRequestGetsItsDictionary ==
    [][\A r \in Slots :
          Ends(r) =>
              /\ resp'.transport = HTTP_200_OK
              /\ \/ /\ resp'.status = HTTP_200_OK
                    /\ resp'.error = ""
                    /\ resp'.file_path = ctx[r].file_path
                    /\ Resolve(resp'.file_path) = Dest(req[r])
                    /\ pc[r] = "close"
                    /\ Dest(req[r]) \in DOMAIN files'
                    /\ processing_stats'.images_received =
                          processing_stats.images_received
                            + (IF req[r].kind = "image" THEN 1 ELSE 0)
                    /\ processing_stats'.meta_received =
                          processing_stats.meta_received
                            + (IF req[r].kind = "meta" THEN 1 ELSE 0)
                    /\ processing_stats'.errors = processing_stats.errors
                 \/ /\ resp'.status = HTTP_500_INTERNAL_SERVER_ERROR
                    /\ resp'.error # ""
                    /\ resp'.file_path = <<>>
                    /\ pc[r] # "close" \/ ctx[r].pending
                    /\ processing_stats'.images_received =
                          processing_stats.images_received
                    /\ processing_stats'.meta_received =
                          processing_stats.meta_received]_vars

\* a request that failed at its write has been answered with a dictionary
\* of status 500 in a response of status 200, after one that succeeded
C13_Witness ==
    /\ resp.status = HTTP_500_INTERNAL_SERVER_ERROR
    /\ resp.transport = HTTP_200_OK
    /\ resp.error = "write"
    /\ tally.imgOk + tally.metaOk >= 1

\* the steps in which a counter is incremented: the end of a save that
\* succeeded, by kind, and the except block of a save
IncrementsOf(kind) ==
    {r \in Slots : Ends(r) /\ req[r].kind = kind /\ pc[r] = "close"
                      /\ resp'.status = HTTP_200_OK}

ErrorIncrements ==
    {r \in Slots : Ends(r) /\ resp'.error \in
                      {"mkdir", "mkdir_os", "open", "write", "close"}}

\* C14: in every step of every interleaving each counter grows by the
\* number of its increments in the step, none decreases and start_time
\* stays; so images_received and meta_received are the numbers of requests
\* of their kind answered with success.
C14_CountersCountIncrements ==
    /\ [](/\ processing_stats.images_received = tally.imgOk
          /\ processing_stats.meta_received = tally.metaOk
          /\ processing_stats.errors <= tally.imgFail + tally.metaFail)
    /\ [][/\ processing_stats'.images_received =
                processing_stats.images_received
                  + Cardinality(IncrementsOf("image"))
          /\ processing_stats'.meta_received =
                processing_stats.meta_received
                  + Cardinality(IncrementsOf("meta"))
          /\ processing_stats'.errors =
                processing_stats.errors + Cardinality(ErrorIncrements)
          /\ processing_stats'.images_received >=
                processing_stats.images_received
          /\ processing_stats'.meta_received >=
                processing_stats.meta_received
          /\ processing_stats'.errors >= processing_stats.errors
          /\ processing_stats'.start_time = processing_stats.start_time]_vars

\* two requests to the same file were in flight together and both have
\* been counted
C14_Witness ==
    /\ resp.status = HTTP_200_OK
    /\ last.rival.some
    /\ processing_stats.images_received + processing_stats.meta_received = 2

\* the errors of a request that fails inside save_image_file or
\* save_meta_file: at the directory chain, the open, the write or the close
StorageErrors == {"mkdir", "mkdir_os", "open", "write", "close"}

\* C15: the step in which a request fails inside save_image_file or
\* save_meta_file increments errors by one, although the save's except
\* block and the endpoint's except block both run, leaves images_received
\* and meta_received as they were, and answers with status 500.
C15_StorageFailureCountsOnce ==
    [][\A r \in Slots :
          (Ends(r) /\ resp'.error \in StorageErrors) =>
              /\ processing_stats'.errors = processing_stats.errors + 1
              /\ last'.errInc = 1
              /\ processing_stats'.images_received =
                    processing_stats.images_received
              /\ processing_stats'.meta_received =
                    processing_stats.meta_received
              /\ resp'.status = HTTP_500_INTERNAL_SERVER_ERROR]_vars

\* a metadata request has failed at the open of its file and is the only
\* request counted
C15_Witness ==
    /\ last.kind = "meta"
    /\ resp.error = "open"
    /\ last.errInc = 1
    /\ processing_stats.errors = 1
    /\ processing_stats.meta_received = 0

\* a request has been answered with failure
SomeRequestFailed == tally.imgFail + tally.metaFail >= 1

\* C16: once a request has failed, every request in flight, whether it
\* arrived before the failure or after it, is answered, with status 200 or
\* 500, when the event loop resumes the coroutines that can run; and no
\* coroutine is ever in a terminated process.
C16_FailureLeavesServiceAvailable ==
    /\ \A r \in Slots :
          (SomeRequestFailed /\ pc[r] # "idle") ~>
              (/\ pc[r] = "idle"
               /\ resp.status \in {HTTP_200_OK, HTTP_500_INTERNAL_SERVER_ERROR})
    /\ [](\A r \in Slots :
             pc[r] \in {"idle", "body", "open", "write", "close"})

\* a request has been answered with success after another had failed
C16_Witness ==
    /\ SomeRequestFailed
    /\ nArrived = 2
    /\ resp.status = HTTP_200_OK

\* the directory a request's file goes to
ChainDir(rq) ==
    Resolve(file_dir(IF rq.kind = "image" THEN IMAGE_DIR ELSE META_DIR,
                     rq.path))

\* a file stands where a directory of the chain of rq has to be
FileInChain(rq) ==
    \E k \in 1..Len(ChainDir(rq)) :
        SubSeq(ChainDir(rq), 1, k) \in DOMAIN files

\* C17: a request whose directory chain exists, whether it was there at the
\* start or another request in flight has created it, does not fail at the
\* directory creation and leaves the directories as they are; a request
\* fails with mkdir's own error only when a file stands in the chain; and a
\* request that goes on to its open has its directory, with no directory
\* removed.
C17_ExistingDirectoriesAccepted ==
    [][\A r \in Slots :
          /\ (Ends(r) /\ pc[r] = "body" /\ ChainDir(req[r]) \in dirs) =>
                /\ resp'.error \notin {"mkdir", "mkdir_os"}
                /\ dirs' = dirs
          /\ (Ends(r) /\ resp'.error = "mkdir") => FileInChain(req[r])
          /\ (pc[r] = "body" /\ pc'[r] = "open") =>
                /\ ChainDir(req[r]) \in dirs'
                /\ dirs \subseteq dirs'
                /\ ChainDir(req[r]) \in dirs => dirs' = dirs]_vars

\* two requests in flight have both passed the creation of the same
\* directory, which did not exist at the start
C17_Witness ==
    \E r, q \in Slots :
        /\ r # q
        /\ pc[r] \in {"open", "write", "close"}
        /\ pc[q] \in {"open", "write", "close"}
        /\ ChainDir(req[r]) = ChainDir(req[q])
        /\ Len(ChainDir(req[r])) > Len(Cwd \o IMAGE_DIR)

\* C18: a request that has opened a file that existed and then failed
\* leaves in the file the content it found.
C18_FailedWriteKeepsOldFile ==
    (resp.status = HTTP_500_INTERNAL_SERVER_ERROR /\ last.found.some) =>
        files[Dest(last)] = last.found.content

\* the rawPaths "d/n.txt", "d/n.json" and "d/n"
SameFilePaths ==
    { <<"d", "/", "n", ".", "t", "x", "t">>,
      <<"d", "/", "n", ".", "j", "s", "o", "n">>,
      <<"d", "/", "n">> }

\* the file meta/d/n.json
SharedFile == Cwd \o META_DIR \o << <<"d">>, <<"n", ".", "j", "s", "o", "n">> >>

\* C19: a metadata request to "d/n.txt", "d/n.json" or "d/n" that succeeds
\* returns a path of meta/d/n.json and leaves its own record there, whatever
\* an earlier request had stored, and meta/d holds no other file.
C19_MetaPathsShareOneFile ==
    (resp.status = HTTP_200_OK /\ last.kind = "meta"
        /\ last.path \in SameFilePaths) =>
        /\ Resolve(resp.file_path) = SharedFile
        /\ files[SharedFile] = last.content
        /\ \A f \in DOMAIN files :
              (IsPrefix(Front(SharedFile), f) => f = SharedFile)

\* the record stored by a request to "d/n" or "d/n.txt" has been replaced
\* by a request to "d/n.json"
C19_Witness ==
    /\ resp.status = HTTP_200_OK
    /\ last.kind = "meta"
    /\ last.path = <<"d", "/", "n", ".", "j", "s", "o", "n">>
    /\ last.found = Some(json_dumps(json_loads(BodyPlain).dict))
    /\ files[SharedFile] = last.content
    /\ last.content # last.found.content

\* C20: the counters that GET /status reports are the numbers of increments
\* that all the workers had made when it was answered.
C20_StatusReportsServiceTotals ==
    cluster.status.worker # 0 =>
        /\ cluster.status.stats.images_received =
              cluster.status.served.images_received
        /\ cluster.status.stats.meta_received =
              cluster.status.served.meta_received
        /\ cluster.status.stats.errors = cluster.status.served.errors
====
